---- MODULE Spec2Model ----
(***************************************************************************)
(* Model of homework.py: the fitness-tracker module that turns sensor      *)
(* packages into workout summaries for running, race walking and swimming. *)
(*                                                                         *)
(* Numbers.  Python ints and floats are modelled as exact rationals        *)
(* [n |-> numerator, d |-> denominator > 0] in lowest terms.  binary64     *)
(* rounding error is not modelled; the input sets below are chosen so that *)
(* every floor division and every "{:.3f}" rendering of the exact value    *)
(* agrees with what CPython computes on the same input.                    *)
(*                                                                         *)
(* Exceptions.  An evaluation yields a result [exc, val]: exc = "none" and *)
(* the value, or the name of the exception raised and a null value.        *)
(*                                                                         *)
(* Strings.  The Cyrillic literals of InfoMessage.message are written in   *)
(* Latin transliteration (the TLA+ lexer accepts ASCII only); fields and   *)
(* punctuation are those of the source.                                    *)
(***************************************************************************)
EXTENDS Integers, Sequences, FiniteSets, TLC

VARIABLES packages, idx, pc, training, info, stdout, error, origin, last,
          ret, msgs, nrec

vars == <<packages, idx, pc, training, info, stdout, error, origin, last,
          ret, msgs, nrec>>

-----------------------------------------------------------------------------
(* Bounds of the model.                                                    *)

MaxPackages == 3
MaxRecords == 2
MaxFormats == 2

-----------------------------------------------------------------------------
(* Exact rational arithmetic.                                              *)

Abs(i) == IF i < 0 THEN -i ELSE i

RECURSIVE GCD(_, _)
GCD(a, b) == IF b = 0 THEN a ELSE GCD(b, a % b)

Q(n, d) ==
    LET s == IF d < 0 THEN -1 ELSE 1
        g == GCD(Abs(n), Abs(d))
    IN  [n |-> (s * n) \div g, d |-> (s * d) \div g]

I(i) == [n |-> i, d |-> 1]

Zero == I(0)

QAdd(x, y) == Q(x.n * y.d + y.n * x.d, x.d * y.d)
QSub(x, y) == Q(x.n * y.d - y.n * x.d, x.d * y.d)
QMul(x, y) == Q(x.n * y.n, x.d * y.d)
QDiv(x, y) == Q(x.n * y.d, x.d * y.n)
(* Python's float // float: the floor of the quotient, as a number.        *)
QFloorDiv(x, y) == LET q == QDiv(x, y) IN I(q.n \div q.d)
(* Python's int(x): truncation toward zero.                                *)
QTrunc(x) == IF x.n >= 0 THEN x.n \div x.d ELSE -((-x.n) \div x.d)

-----------------------------------------------------------------------------
(* Results of evaluating Python expressions, left to right.                *)

NoExc == "none"

Val(x) == [exc |-> NoExc, val |-> x]
Raise(e) == [exc |-> e, val |-> Zero]

Add(a, b) == IF a.exc # NoExc THEN a ELSE IF b.exc # NoExc THEN b
             ELSE Val(QAdd(a.val, b.val))
Sub(a, b) == IF a.exc # NoExc THEN a ELSE IF b.exc # NoExc THEN b
             ELSE Val(QSub(a.val, b.val))
Mul(a, b) == IF a.exc # NoExc THEN a ELSE IF b.exc # NoExc THEN b
             ELSE Val(QMul(a.val, b.val))
Div(a, b) == IF a.exc # NoExc THEN a ELSE IF b.exc # NoExc THEN b
             ELSE IF b.val.n = 0 THEN Raise("ZeroDivisionError")
             ELSE Val(QDiv(a.val, b.val))
FloorDiv(a, b) == IF a.exc # NoExc THEN a ELSE IF b.exc # NoExc THEN b
                  ELSE IF b.val.n = 0 THEN Raise("ZeroDivisionError")
                  ELSE Val(QFloorDiv(a.val, b.val))
Pow2(a) == Mul(a, a)

-----------------------------------------------------------------------------
(* Built-in conversions used by the constructors.                          *)

(* int(action)                                                             *)
int(x) == I(QTrunc(x))
(* float(x): every input of the model is exactly representable, so the     *)
(* conversion keeps the value.                                             *)
float(x) == Q(x.n, x.d)

-----------------------------------------------------------------------------
(* Class attributes (looked up through the class hierarchy).               *)

Classes == {"Training", "Running", "SportsWalking", "Swimming"}

M_IN_KM == 1000
SECONDS_IN_MIN == 60

(* Mutant: Swimming does not override LEN_STEP.                            *)
LEN_STEP_not_overridden(cls) == Q(65, 100)

(* LEN_STEP: 0.65 in Training, overridden by 1.38 in Swimming.             *)
LEN_STEP(cls) == IF cls = "Swimming" THEN Q(138, 100) ELSE Q(65, 100)

(* COEFF_CALLORIE_1: 18, 0.035, 1.1 (only annotated in Training).          *)
COEFF_CALLORIE_1(cls) ==
    CASE cls = "Running" -> I(18)
      [] cls = "SportsWalking" -> Q(35, 1000)
      [] cls = "Swimming" -> Q(11, 10)

(* COEFF_CALLORIE_2: 20, 0.029, 2.                                         *)
COEFF_CALLORIE_2(cls) ==
    CASE cls = "Running" -> I(20)
      [] cls = "SportsWalking" -> Q(29, 1000)
      [] cls = "Swimming" -> I(2)

-----------------------------------------------------------------------------
(* Constructors.  An object is a record of its class and attributes.       *)

None == [cls |-> "NoneType"]

Training_init(cls, action, duration, weight) ==
    [cls |-> cls, action |-> int(action), duration |-> float(duration),
     weight |-> float(weight)]

SportsWalking_init(cls, action, duration, weight, height) ==
    [cls |-> cls, action |-> int(action), duration |-> float(duration),
     weight |-> float(weight), height |-> float(height)]

(* Mutant: the two pool arguments are stored the wrong way round.          *)
Swimming_init_swapped(cls, action, duration, weight, length_pool, count_pool) ==
    [cls |-> cls, action |-> int(action), duration |-> float(duration),
     weight |-> float(weight), length_pool |-> float(count_pool),
     count_pool |-> float(length_pool)]

Swimming_init(cls, action, duration, weight, length_pool, count_pool) ==
    [cls |-> cls, action |-> int(action), duration |-> float(duration),
     weight |-> float(weight), length_pool |-> float(length_pool),
     count_pool |-> float(count_pool)]

(* Number of positional arguments __init__ of a class takes.               *)
Arity(cls) ==
    CASE cls = "SportsWalking" -> 4
      [] cls = "Swimming" -> 5
      [] OTHER -> 3

(* Calling cls with data unpacked: a wrong number of arguments is a        *)
(* TypeError.                                                              *)
New(cls, data) ==
    IF Len(data) # Arity(cls) THEN [exc |-> "TypeError", val |-> None]
    ELSE [exc |-> NoExc,
          val |-> CASE cls = "SportsWalking" ->
                         SportsWalking_init(cls, data[1], data[2], data[3],
                                            data[4])
                    [] cls = "Swimming" ->
                         Swimming_init(cls, data[1], data[2], data[3],
                                       data[4], data[5])
                    [] OTHER ->
                         Training_init(cls, data[1], data[2], data[3])]

-----------------------------------------------------------------------------
(* Methods.  X_m is method m as class X defines it; m is the call          *)
(* self.m(), resolved by the class of self.                                *)

Training_get_distance(self) ==
    Div(Mul(Val(self.action), Val(LEN_STEP(self.cls))), Val(I(M_IN_KM)))

get_distance(self) == Training_get_distance(self)

(* Mutant: a zero duration is answered with a speed of zero.               *)
Training_get_mean_speed_guarded(self) ==
    IF self.duration = Zero THEN Val(Zero)
    ELSE Div(get_distance(self), Val(self.duration))

Training_get_mean_speed(self) ==
    Div(get_distance(self), Val(self.duration))

Swimming_get_mean_speed(self) ==
    Div(Div(Mul(Val(self.length_pool), Val(self.count_pool)),
            Val(I(M_IN_KM))),
        Val(self.duration))

(* Mutant: Swimming does not override get_mean_speed.                      *)
get_mean_speed_inherited(self) == Training_get_mean_speed(self)

get_mean_speed(self) ==
    IF self.cls = "Swimming" THEN Swimming_get_mean_speed(self)
    ELSE Training_get_mean_speed(self)

Training_get_duration_in_minutes(self) ==
    Mul(Val(self.duration), Val(I(SECONDS_IN_MIN)))

get_duration_in_minutes(self) == Training_get_duration_in_minutes(self)

Training_get_spent_calories(self) == Raise("NotImplementedError")

(* Mutant: the duration is taken in hours, not minutes.                    *)
Running_get_spent_calories_hours(self) ==
    LET coeff_1 == Val(COEFF_CALLORIE_1(self.cls))
        coeff_2 == Val(COEFF_CALLORIE_2(self.cls))
    IN  Mul(Div(Mul(Sub(Mul(coeff_1, get_mean_speed(self)), coeff_2),
                    Val(self.weight)),
                Val(I(M_IN_KM))),
            Val(self.duration))

Running_get_spent_calories(self) ==
    LET coeff_1 == Val(COEFF_CALLORIE_1(self.cls))
        coeff_2 == Val(COEFF_CALLORIE_2(self.cls))
    IN  Mul(Div(Mul(Sub(Mul(coeff_1, get_mean_speed(self)), coeff_2),
                    Val(self.weight)),
                Val(I(M_IN_KM))),
            get_duration_in_minutes(self))

(* Mutant: ordinary division of the squared speed by the height.           *)
SportsWalking_get_spent_calories_truediv(self) ==
    LET coeff_1 == Val(COEFF_CALLORIE_1(self.cls))
        coeff_2 == Val(COEFF_CALLORIE_2(self.cls))
        left_multiplier ==
            Add(Mul(coeff_1, Val(self.weight)),
                Mul(Div(Pow2(get_mean_speed(self)), Val(self.height)),
                    coeff_2))
    IN  Mul(left_multiplier, get_duration_in_minutes(self))

SportsWalking_get_spent_calories(self) ==
    LET coeff_1 == Val(COEFF_CALLORIE_1(self.cls))
        coeff_2 == Val(COEFF_CALLORIE_2(self.cls))
        left_multiplier ==
            Add(Mul(coeff_1, Val(self.weight)),
                Mul(FloorDiv(Pow2(get_mean_speed(self)), Val(self.height)),
                    coeff_2))
    IN  Mul(left_multiplier, get_duration_in_minutes(self))

Swimming_get_spent_calories(self) ==
    LET coeff_1 == Val(COEFF_CALLORIE_1(self.cls))
        coeff_2 == Val(COEFF_CALLORIE_2(self.cls))
    IN  Mul(Mul(Add(get_mean_speed(self), coeff_1), coeff_2),
            Val(self.weight))

get_spent_calories(self) ==
    CASE self.cls = "Running" -> Running_get_spent_calories(self)
      [] self.cls = "SportsWalking" -> SportsWalking_get_spent_calories(self)
      [] self.cls = "Swimming" -> Swimming_get_spent_calories(self)
      [] OTHER -> Training_get_spent_calories(self)

(* InfoMessage(training_type, duration, distance, speed, calories): the    *)
(* arguments are evaluated in order and the first exception propagates.    *)
InfoMessage(training_type, duration, distance, speed, calories) ==
    IF distance.exc # NoExc THEN [exc |-> distance.exc, val |-> None]
    ELSE IF speed.exc # NoExc THEN [exc |-> speed.exc, val |-> None]
    ELSE IF calories.exc # NoExc THEN [exc |-> calories.exc, val |-> None]
    ELSE [exc |-> NoExc,
          val |-> [cls |-> "InfoMessage",
                   training_type |-> training_type,
                   duration |-> duration,
                   distance |-> distance.val,
                   speed |-> speed.val,
                   calories |-> calories.val]]

(* type(self).__name__ in Training; the subclasses pass their own name.    *)
Training_show_training_info(self) ==
    InfoMessage(self.cls, self.duration, get_distance(self),
                get_mean_speed(self), get_spent_calories(self))

Running_show_training_info(self) ==
    InfoMessage("Running", self.duration, get_distance(self),
                get_mean_speed(self), get_spent_calories(self))

SportsWalking_show_training_info(self) ==
    InfoMessage("SportsWalking", self.duration, get_distance(self),
                get_mean_speed(self), get_spent_calories(self))

Swimming_show_training_info(self) ==
    InfoMessage("Swimming", self.duration, get_distance(self),
                get_mean_speed(self), get_spent_calories(self))

show_training_info(self) ==
    CASE self.cls = "Running" -> Running_show_training_info(self)
      [] self.cls = "SportsWalking" -> SportsWalking_show_training_info(self)
      [] self.cls = "Swimming" -> Swimming_show_training_info(self)
      [] OTHER -> Training_show_training_info(self)

-----------------------------------------------------------------------------
(* InfoMessage.get_message: "{:.3f}" and the message template.             *)

(* The integer nearest to 1000 * |x|, ties to the even one.                *)
Thousandths(x) ==
    LET m == Abs(x.n) * 1000
        q == m \div x.d
        r == m % x.d
    IN  IF 2 * r > x.d THEN q + 1
        ELSE IF 2 * r < x.d THEN q
        ELSE q + (q % 2)

Pad3(k) ==
    IF k < 10 THEN "00" \o ToString(k)
    ELSE IF k < 100 THEN "0" \o ToString(k)
    ELSE ToString(k)

(* format(x, ".3f"): the sign of x is kept even when it rounds to zero.    *)
Format3f(x) ==
    LET t == Thousandths(x)
    IN  (IF x.n < 0 THEN "-" ELSE "") \o ToString(t \div 1000) \o "."
            \o Pad3(t % 1000)

get_message(self) ==
    "Tip trenirovki: " \o self.training_type
        \o "; Dlitel'nost': " \o Format3f(self.duration)
        \o " ch.; Distanciya: " \o Format3f(self.distance)
        \o " km; Sr. skorost': " \o Format3f(self.speed)
        \o " km/ch; Potracheno kkal: " \o Format3f(self.calories)
        \o "."

-----------------------------------------------------------------------------
(* read_package.                                                           *)

(* Mutant: the walking code is bound to the base class.                    *)
workout_types_with_base ==
    [SWM |-> "Swimming", RUN |-> "Running", WLK |-> "Training"]

workout_types ==
    [SWM |-> "Swimming", RUN |-> "Running", WLK |-> "SportsWalking"]

(* The try body: look the class up and call it with data unpacked.         *)
Dispatch(workout_type, data) ==
    IF workout_type \notin DOMAIN workout_types
    THEN [exc |-> "KeyError", val |-> None]
    ELSE New(workout_types[workout_type], data)

(* The line printed by the except clause.                                  *)
UnsupportedMessage(workout_type) ==
    "This type of workout \"" \o workout_type \o "\" is not supported."

(* What read_package returns or raises: the handler re-raises KeyError,    *)
(* any other exception passes through it.                                  *)
read_package(workout_type, data) == Dispatch(workout_type, data)

-----------------------------------------------------------------------------
(* Inputs.                                                                 *)

Package(workout_type, data) == [workout_type |-> workout_type, data |-> data]

(* The three packages of the __main__ block.                               *)
PackageSWM == Package("SWM", <<I(720), I(1), I(80), I(25), I(40)>>)
PackageRUN == Package("RUN", <<I(15000), I(1), I(75)>>)
PackageWLK == Package("WLK", <<I(9000), I(1), I(75), I(180)>>)

(* Packages a run may be given: the three above, one with an unknown code, *)
(* one with a zero duration, one with a value missing.                     *)
PipelineInputs ==
    {PackageSWM, PackageRUN, PackageWLK,
     Package("XYZ", <<I(15000), I(1), I(75)>>),
     Package("RUN", <<I(15000), I(0), I(75)>>),
     Package("WLK", <<I(9000), I(1), I(75)>>)}

PackageLists ==
    UNION {[1..k -> PipelineInputs] : k \in 0..MaxPackages}

(* Raw values by position, for calls of the constructors and read_package. *)
ActionValues == {I(1000), I(9000), I(15000), Q(18001, 2)}
DurationValues == {I(0), I(1), Q(1, 4)}
WeightValues == {I(75), I(80)}
FourthValues == {I(180), I(25)}
FifthValues == {I(40)}

DataLists ==
    {<<a, d, w>> : a \in ActionValues, d \in DurationValues,
                   w \in WeightValues}
    \cup {<<x[1], x[2], x[3], x[4]>> :
            x \in ActionValues \X DurationValues \X WeightValues
                  \X FourthValues}
    \cup {<<x[1], x[2], x[3], x[4], x[5]>> :
            x \in ActionValues \X DurationValues \X WeightValues
                  \X FourthValues \X FifthValues}

WorkoutCodes == {"SWM", "RUN", "WLK", "XYZ"}

-----------------------------------------------------------------------------
(* The program run: the loop of the __main__ block over the packages.      *)

NoOrigin == [via |-> "none", name |-> "", data |-> <<>>]
NoRet == Val(Zero)

Init ==
    /\ packages \in PackageLists
    /\ idx = 1
    /\ pc = IF packages = <<>> THEN "done" ELSE "read"
    /\ training = None
    /\ info = None
    /\ stdout = <<>>
    /\ error = NoExc
    /\ origin = NoOrigin
    /\ last = "none"
    /\ ret = NoRet
    /\ msgs = <<>>
    /\ nrec = 0

(* training = read_package(workout_type, data), up to the except clause.   *)
ReadPackage ==
    /\ pc = "read"
    /\ LET p == packages[idx]
           r == Dispatch(p.workout_type, p.data)
       IN  CASE r.exc = "KeyError" ->
                  /\ pc' = "except_print"
                  /\ UNCHANGED <<training, error>>
             [] r.exc = NoExc ->
                  /\ training' = r.val
                  /\ pc' = "main"
                  /\ UNCHANGED error
             [] OTHER ->
                  /\ error' = r.exc
                  /\ pc' = "crashed"
                  /\ UNCHANGED training
    /\ UNCHANGED <<packages, idx, info, stdout, origin, last, ret, msgs, nrec>>

(* except KeyError: print(...)                                             *)
PrintUnsupported ==
    /\ pc = "except_print"
    /\ stdout' = Append(stdout, UnsupportedMessage(packages[idx].workout_type))
    /\ pc' = "except_raise"
    /\ UNCHANGED <<packages, idx, training, info, error, origin, last, ret,
                   msgs, nrec>>

(* Mutant: the handler does not raise again and the run goes on with the   *)
(* next package.                                                           *)
RaiseKeyError_absorbed ==
    /\ pc = "except_raise"
    /\ idx' = idx + 1
    /\ pc' = IF idx = Len(packages) THEN "done" ELSE "read"
    /\ UNCHANGED <<packages, training, info, stdout, error, origin, last, ret,
                   msgs, nrec>>

(* raise KeyError(e): nothing catches it, the run ends.                    *)
RaiseKeyError ==
    /\ pc = "except_raise"
    /\ error' = "KeyError"
    /\ pc' = "crashed"
    /\ UNCHANGED <<packages, idx, training, info, stdout, origin, last, ret,
                   msgs, nrec>>

(* Mutant: a package whose summary fails is skipped and the run goes on.   *)
MainShowTrainingInfo_skipping ==
    /\ pc = "main"
    /\ LET r == show_training_info(training)
       IN  IF r.exc = NoExc
           THEN /\ info' = r.val
                /\ pc' = "print"
                /\ UNCHANGED idx
           ELSE /\ idx' = idx + 1
                /\ pc' = IF idx = Len(packages) THEN "done" ELSE "read"
                /\ UNCHANGED info
    /\ UNCHANGED <<packages, training, stdout, error, origin, last, ret, msgs,
                   nrec>>

(* main: info = training.show_training_info()                              *)
MainShowTrainingInfo ==
    /\ pc = "main"
    /\ LET r == show_training_info(training)
       IN  IF r.exc = NoExc
           THEN /\ info' = r.val
                /\ pc' = "print"
                /\ UNCHANGED error
           ELSE /\ error' = r.exc
                /\ pc' = "crashed"
                /\ UNCHANGED info
    /\ UNCHANGED <<packages, idx, training, stdout, origin, last, ret, msgs,
                   nrec>>

(* main: print(info.get_message()), then the next package.                 *)
MainPrint ==
    /\ pc = "print"
    /\ stdout' = Append(stdout, get_message(info))
    /\ info' = None
    /\ idx' = idx + 1
    /\ pc' = IF idx = Len(packages) THEN "done" ELSE "read"
    /\ UNCHANGED <<packages, training, error, origin, last, ret, msgs, nrec>>

Next ==
    \/ ReadPackage
    \/ PrintUnsupported
    \/ RaiseKeyError
    \/ MainShowTrainingInfo
    \/ MainPrint

Spec == Init /\ [][Next]_vars

-----------------------------------------------------------------------------
(* Calls of the module's functions and methods one at a time, as a test or *)
(* another caller makes them: objects are built by read_package or by a    *)
(* class directly, then any method is called on the object at hand, and    *)
(* the caller goes on to the next record.                                  *)

InitAPI ==
    /\ packages = <<>>
    /\ idx = 0
    /\ pc = "new"
    /\ training = None
    /\ info = None
    /\ stdout = <<>>
    /\ error = NoExc
    /\ origin = NoOrigin
    /\ last = "none"
    /\ ret = NoRet
    /\ msgs = <<>>
    /\ nrec = 0

(* The caller's state after evaluating a constructing call with result r:  *)
(* the name training is bound to the object only when the call returns.    *)
Bind(r, o, lines) ==
    /\ origin' = o
    /\ nrec' = nrec + 1
    /\ stdout' = stdout \o lines
    /\ IF r.exc = NoExc
       THEN /\ training' = r.val
            /\ pc' = "api"
            /\ UNCHANGED error
       ELSE /\ error' = r.exc
            /\ pc' = "crashed"
            /\ UNCHANGED training
    /\ UNCHANGED <<packages, idx, info, last, ret, msgs>>

(* training = read_package(workout_type, data)                             *)
CallReadPackage ==
    /\ pc = "new"
    /\ nrec < MaxRecords
    /\ \E workout_type \in WorkoutCodes, data \in DataLists :
         LET r == read_package(workout_type, data)
         IN  Bind(r,
                  [via |-> "read_package", name |-> workout_type,
                   data |-> data],
                  IF r.exc = "KeyError"
                  THEN <<UnsupportedMessage(workout_type)>> ELSE <<>>)

(* training = cls(a, b, ...) for one of the four classes                   *)
CallClass ==
    /\ pc = "new"
    /\ nrec < MaxRecords
    /\ \E cls \in Classes, data \in DataLists :
         Bind(New(cls, data),
              [via |-> "class", name |-> cls, data |-> data], <<>>)

(* The work on a record is over and the caller goes on to the next one, as *)
(* the loop does when main has returned: the summary, a local of main, is  *)
(* gone, while the name training stays bound to the object until a         *)
(* constructing call returns the next one.                                 *)
NextRecord ==
    /\ pc = "api"
    /\ nrec < MaxRecords
    /\ pc' = "new"
    /\ info' = None
    /\ origin' = NoOrigin
    /\ last' = "none"
    /\ ret' = NoRet
    /\ msgs' = <<>>
    /\ UNCHANGED <<packages, idx, training, stdout, error, nrec>>

(* A method call that returns r to the caller.                             *)
Returns(method, r) ==
    /\ last' = method
    /\ ret' = r

CallGetDistance ==
    /\ pc = "api"
    /\ Returns("get_distance", get_distance(training))
    /\ UNCHANGED <<packages, idx, pc, training, info, stdout, error, origin,
                   msgs, nrec>>

CallGetMeanSpeed ==
    /\ pc = "api"
    /\ Returns("get_mean_speed", get_mean_speed(training))
    /\ UNCHANGED <<packages, idx, pc, training, info, stdout, error, origin,
                   msgs, nrec>>

(* Mutant: the method stores the minutes in the duration field.            *)
CallGetDurationInMinutes_storing ==
    /\ pc = "api"
    /\ Returns("get_duration_in_minutes", get_duration_in_minutes(training))
    /\ training' = [training EXCEPT !.duration = ret'.val]
    /\ UNCHANGED <<packages, idx, pc, info, stdout, error, origin, msgs, nrec>>

CallGetDurationInMinutes ==
    /\ pc = "api"
    /\ Returns("get_duration_in_minutes", get_duration_in_minutes(training))
    /\ UNCHANGED <<packages, idx, pc, training, info, stdout, error, origin,
                   msgs, nrec>>

CallGetSpentCalories ==
    /\ pc = "api"
    /\ Returns("get_spent_calories", get_spent_calories(training))
    /\ UNCHANGED <<packages, idx, pc, training, info, stdout, error, origin,
                   msgs, nrec>>

(* info = training.show_training_info(): info is bound only on return.     *)
CallShowTrainingInfo ==
    /\ pc = "api"
    /\ LET r == show_training_info(training)
       IN  /\ Returns("show_training_info", r)
           /\ info' = IF r.exc = NoExc THEN r.val ELSE info
           /\ msgs' = IF r.exc = NoExc THEN <<>> ELSE msgs
    /\ UNCHANGED <<packages, idx, pc, training, stdout, error, origin, nrec>>

(* info.get_message(); msgs keeps what the calls on this info returned.    *)
CallGetMessage ==
    /\ pc = "api"
    /\ info # None
    /\ Len(msgs) < MaxFormats
    /\ Returns("get_message", [exc |-> NoExc, val |-> get_message(info)])
    /\ msgs' = Append(msgs, get_message(info))
    /\ UNCHANGED <<packages, idx, pc, training, info, stdout, error, origin,
                   nrec>>

NextAPI ==
    \/ CallReadPackage
    \/ CallClass
    \/ NextRecord
    \/ CallGetDistance
    \/ CallGetMeanSpeed
    \/ CallGetDurationInMinutes
    \/ CallGetSpentCalories
    \/ CallShowTrainingInfo
    \/ CallGetMessage

SpecAPI == InitAPI /\ [][NextAPI]_vars

-----------------------------------------------------------------------------
(* Vocabulary of the properties, stated apart from the model's operators.  *)

KnownCodes == {"SWM", "RUN", "WLK"}
Variants == {"Running", "SportsWalking", "Swimming"}

VariantOf(code) ==
    CASE code = "SWM" -> "Swimming"
      [] code = "RUN" -> "Running"
      [] code = "WLK" -> "SportsWalking"

FieldCount(variant) ==
    CASE variant = "Swimming" -> 5
      [] variant = "SportsWalking" -> 4
      [] OTHER -> 3

Diagnostic(code) == "This type of workout \"" \o code \o "\" is not supported."

(* a is the integer part of x: x with its fraction cut off.                *)
IsIntegerPartOf(a, x) ==
    /\ a.d = 1
    /\ x.n >= 0 => (a.n * x.d <= x.n /\ x.n < (a.n + 1) * x.d)
    /\ x.n < 0 => ((a.n - 1) * x.d < x.n /\ x.n <= a.n * x.d)

(* The package at hand in the program run.                                 *)
Current == packages[idx]

-----------------------------------------------------------------------------
(* C1: a package whose code is not SWM, RUN or WLK makes read_package      *)
(* raise KeyError to its caller, which ends the run: the error is never    *)
(* absorbed, no object is built for the package, and the line naming the   *)
(* unknown code is on standard output before the error leaves              *)
(* read_package.                                                           *)
C1_UnknownCodeRaises ==
    /\ [](/\ (pc \in {"read", "except_print", "except_raise", "main", "print",
                      "crashed"}
              /\ Current.workout_type \notin KnownCodes)
             => /\ pc \in {"read", "except_print", "except_raise", "crashed"}
                /\ pc = "crashed" => error = "KeyError"
                /\ idx = 1 => training = None
                /\ idx > 1 => training.cls
                                 = VariantOf(packages[idx - 1].workout_type)
                /\ info = None
          /\ error = "KeyError"
             => /\ pc = "crashed"
                /\ Current.workout_type \notin KnownCodes
                /\ stdout # <<>>
                /\ stdout[Len(stdout)] = Diagnostic(Current.workout_type))
    /\ [][/\ (pc = "read" /\ Current.workout_type \notin KnownCodes)
             => (pc' = "except_print" /\ training' = training)
          /\ pc = "except_print"
             => /\ pc' = "except_raise"
                /\ stdout' = Append(stdout, Diagnostic(Current.workout_type))
                /\ error' = NoExc
                /\ training' = training
          /\ pc = "except_raise"
             => /\ pc' = "crashed"
                /\ error' = "KeyError"
                /\ stdout' = stdout
                /\ stdout[Len(stdout)] = Diagnostic(Current.workout_type)
                /\ training' = training
          /\ pc # "crashed"]_vars

C1_Witness ==
    /\ pc = "crashed"
    /\ error = "KeyError"
    /\ Current.workout_type = "XYZ"
    /\ Len(stdout) = 3
    /\ training.cls = "Swimming"

-----------------------------------------------------------------------------
(* C2 (as amended): for a known code and a data list as long as the        *)
(* variant's constructor takes, read_package returns an object of exactly  *)
(* the variant of the code, whose fields are the raw values in order, the  *)
(* first cut to its integer part and the others kept.                      *)
C2_Built ==
    /\ origin.via = "read_package"
    /\ origin.name \in KnownCodes
    /\ Len(origin.data) = FieldCount(VariantOf(origin.name))

C2_Fields(v) ==
    {"cls", "action", "duration", "weight"}
        \cup (IF v = "SportsWalking" THEN {"height"} ELSE {})
        \cup (IF v = "Swimming" THEN {"length_pool", "count_pool"} ELSE {})

C2_Rest ==
    LET v == VariantOf(origin.name)
    IN  /\ pc = "api"
        /\ error = NoExc
        /\ training.cls = v
        /\ DOMAIN training = C2_Fields(v)
        /\ training.duration = origin.data[2]
        /\ training.weight = origin.data[3]
        /\ v = "SportsWalking" => training.height = origin.data[4]
        /\ v = "Swimming" => /\ training.length_pool = origin.data[4]
                             /\ training.count_pool = origin.data[5]

C2_DispatchPositionalCoerced ==
    C2_Built => /\ C2_Rest
                /\ IsIntegerPartOf(training.action, origin.data[1])

(* C2 as stated: every field, the first included, is the raw value.        *)
C2_DispatchPositionalRaw ==
    C2_Built => /\ C2_Rest
                /\ training.action = origin.data[1]

C2_Witness ==
    /\ C2_Built
    /\ origin.name = "SWM"
    /\ pc = "api"
    /\ origin.data[1] = Q(18001, 2)
    /\ training.action = I(9000)
    /\ training.count_pool = I(40)

-----------------------------------------------------------------------------
(* C3: with a nonzero duration, get_spent_calories of each variant is the  *)
(* formula of the table, over the mean speed v, the weight w and the       *)
(* duration in minutes m = 60 * duration:                                  *)
(*   Running        (18 v - 20) w / 1000 * m                               *)
(*   SportsWalking  (0.035 w + floor(v^2 / height) * 0.029) * m            *)
(*   Swimming       (v + 1.1) * 2 * w                                      *)
C3_Floor(x, y) == (x.n * y.d) \div (x.d * y.n)

C3_Table(t) ==
    LET v == get_mean_speed(t).val
        w == t.weight
        m == QMul(t.duration, I(60))
    IN  CASE t.cls = "Running" ->
               QMul(QDiv(QMul(QSub(QMul(I(18), v), I(20)), w), I(1000)), m)
          [] t.cls = "SportsWalking" ->
               QMul(QAdd(QMul(Q(35, 1000), w),
                         QMul(I(C3_Floor(QMul(v, v), t.height)), Q(29, 1000))),
                    m)
          [] t.cls = "Swimming" ->
               QMul(QMul(QAdd(v, Q(11, 10)), I(2)), w)

C3_CaloriesFollowTable ==
    (/\ pc = "api"
     /\ training.cls \in Variants
     /\ training.duration # Zero)
    => /\ get_duration_in_minutes(training) = Val(QMul(training.duration, I(60)))
       /\ last = "get_spent_calories"
          => (ret.exc = NoExc /\ ret.val = C3_Table(training))

(* A walk whose squared speed over the height has a fraction to drop and   *)
(* an integer part to keep.                                                *)
C3_Witness ==
    /\ pc = "api"
    /\ training.cls = "SportsWalking"
    /\ training.duration # Zero
    /\ last = "get_spent_calories"
    /\ ret.exc = NoExc
    /\ LET v == get_mean_speed(training).val
       IN  /\ C3_Floor(QMul(v, v), training.height) > 0
           /\ QDiv(QMul(v, v), training.height).d # 1

-----------------------------------------------------------------------------
(* C4 (as amended): the summary of Running(15000, 1, 75), the second       *)
(* package of the __main__ block, has distance 9.75 km, mean speed         *)
(* 9.75 km/h and 699.75 kcal.                                              *)
C4_RunningSummary ==
    (pc = "print" /\ Current = PackageRUN)
    => /\ info.training_type = "Running"
       /\ info.duration = I(1)
       /\ info.distance = Q(975, 100)
       /\ info.speed = Q(975, 100)
       /\ info.calories = Q(69975, 100)

(* C4 as stated: 722.25 kcal.                                              *)
C4_RunningSummaryAsStated ==
    (pc = "print" /\ Current = PackageRUN)
    => /\ info.distance = Q(975, 100)
       /\ info.speed = Q(975, 100)
       /\ info.calories = Q(72225, 100)

C4_Witness ==
    /\ pc = "print"
    /\ Current = PackageRUN
    /\ info.training_type = "Running"
    /\ idx = 2

-----------------------------------------------------------------------------
(* C5 (as amended): get_distance is action * LEN_STEP / 1000, the step     *)
(* length being 0.65 m for Running and SportsWalking (and the base class)  *)
(* and 1.38 m for Swimming, that is 0.00065 km and 0.00138 km a unit; it   *)
(* depends on no other field.                                              *)
C5_StepLength(cls) == IF cls = "Swimming" THEN Q(138, 100) ELSE Q(65, 100)

C5_OtherFieldsIgnored ==
    /\ \A d \in DurationValues, w \in WeightValues :
         get_distance([training EXCEPT !.duration = d, !.weight = w]) = ret
    /\ training.cls = "SportsWalking"
       => \A h \in FourthValues :
            get_distance([training EXCEPT !.height = h]) = ret
    /\ training.cls = "Swimming"
       => \A l \in FourthValues, c \in FifthValues :
            get_distance([training EXCEPT !.length_pool = l,
                                          !.count_pool = c]) = ret

C5_DistanceInKm ==
    (pc = "api" /\ last = "get_distance")
    => /\ ret.exc = NoExc
       /\ ret.val = QDiv(QMul(training.action, C5_StepLength(training.cls)),
                         I(1000))
       /\ C5_OtherFieldsIgnored

(* C5 as stated: the unit count times a step length of 0.65 km or 1.38 km. *)
C5_DistanceAsStated ==
    (pc = "api" /\ last = "get_distance")
    => /\ ret.exc = NoExc
       /\ ret.val = QMul(training.action, C5_StepLength(training.cls))
       /\ C5_OtherFieldsIgnored

C5_Witness ==
    /\ pc = "api"
    /\ last = "get_distance"
    /\ training.cls = "Swimming"
    /\ training.action = I(1000)
    /\ ret.val = Q(138, 100)

-----------------------------------------------------------------------------
(* C6: get_mean_speed of Running and SportsWalking is get_distance over    *)
(* the duration; of Swimming it is length_pool * count_pool / 1000 over    *)
(* the duration, whatever the stroke count and the distance are.  With a   *)
(* zero duration neither quotient exists and the call raises.              *)
C6_MeanSpeed ==
    (pc = "api" /\ last = "get_mean_speed" /\ training.cls \in Variants)
    => IF training.duration = Zero THEN ret.exc = "ZeroDivisionError"
       ELSE /\ ret.exc = NoExc
            /\ training.cls \in {"Running", "SportsWalking"}
               => ret.val = QDiv(get_distance(training).val, training.duration)
            /\ training.cls = "Swimming"
               => /\ ret.val = QDiv(QDiv(QMul(training.length_pool,
                                              training.count_pool), I(1000)),
                                    training.duration)
                  /\ \A a \in ActionValues :
                       get_mean_speed([training EXCEPT !.action = int(a)])
                           = ret

(* A swim whose mean speed is not its distance over its duration.          *)
C6_Witness ==
    /\ pc = "api"
    /\ last = "get_mean_speed"
    /\ training.cls = "Swimming"
    /\ ret.exc = NoExc
    /\ ret.val # QDiv(get_distance(training).val, training.duration)
    /\ ret.val = I(4)

-----------------------------------------------------------------------------
(* C7 (as amended): standard output holds, in input order, one summary     *)
(* line for each package of a prefix of the input, followed by the line    *)
(* naming an unknown code when the next package has one; when every        *)
(* package is valid the run ends with one line a package, and a package    *)
(* whose processing fails ends the run without a summary line.             *)
C7_ArityOf(code) ==
    CASE code = "SWM" -> 5
      [] code = "WLK" -> 4
      [] code = "RUN" -> 3

C7_Valid(p) ==
    /\ p.workout_type \in KnownCodes
    /\ Len(p.data) = C7_ArityOf(p.workout_type)
    /\ p.data[2] # Zero

C7_SummaryLine(p) ==
    get_message(
        show_training_info(New(VariantOf(p.workout_type), p.data).val).val)

(* The packages whose summary has been printed.                            *)
C7_Done == idx - 1

C7_SummariesOfPrefix ==
    /\ C7_Done <= Len(packages)
    /\ Len(stdout) >= C7_Done
    /\ \A i \in 1..C7_Done :
         C7_Valid(packages[i]) /\ stdout[i] = C7_SummaryLine(packages[i])

C7_EndOfRun ==
    /\ pc = "done" => C7_Done = Len(packages)
    /\ pc = "crashed" => (C7_Done < Len(packages) /\ ~C7_Valid(Current))
    /\ (\A i \in 1..Len(packages) : C7_Valid(packages[i]))
       => (pc \in {"read", "main", "print", "done"} /\ error = NoExc)

C7_OutputOrder ==
    /\ C7_SummariesOfPrefix
    /\ C7_EndOfRun
    /\ \/ Len(stdout) = C7_Done
       \/ /\ Len(stdout) = C7_Done + 1
          /\ pc \in {"except_raise", "crashed"}
          /\ Current.workout_type \notin KnownCodes
          /\ stdout[Len(stdout)] = Diagnostic(Current.workout_type)

(* C7 as stated: every line on standard output is a summary line.          *)
C7_OutputOrderAsStated ==
    /\ C7_SummariesOfPrefix
    /\ C7_EndOfRun
    /\ Len(stdout) = C7_Done

C7_Witness ==
    /\ pc = "crashed"
    /\ error = "KeyError"
    /\ Len(stdout) = 3
    /\ stdout[1] = C7_SummaryLine(PackageSWM)
    /\ stdout[2] = C7_SummaryLine(PackageRUN)

-----------------------------------------------------------------------------
(* C8: an object with a duration of exactly 0 is built without error by    *)
(* every variant; its get_mean_speed, get_spent_calories and               *)
(* show_training_info raise ZeroDivisionError and produce no summary; its  *)
(* get_distance and get_duration_in_minutes return.                        *)
C8_ZeroRequested ==
    /\ origin.via # "none"
    /\ \/ origin.via = "class" /\ origin.name \in Variants
          /\ Len(origin.data) = FieldCount(origin.name)
       \/ origin.via = "read_package" /\ origin.name \in KnownCodes
          /\ Len(origin.data) = FieldCount(VariantOf(origin.name))
    /\ origin.data[2] = Zero

C8_ZeroDuration ==
    /\ C8_ZeroRequested
       => (pc = "api" /\ error = NoExc /\ training.duration = Zero)
    /\ (pc = "api" /\ training.cls \in Variants /\ training.duration = Zero)
       => /\ last \in {"get_mean_speed", "get_spent_calories",
                       "show_training_info"}
             => ret.exc = "ZeroDivisionError"
          /\ info = None
          /\ msgs = <<>>
          /\ last = "get_distance"
             => /\ ret.exc = NoExc
                /\ ret.val = QDiv(QMul(training.action,
                                       C5_StepLength(training.cls)), I(1000))
          /\ last = "get_duration_in_minutes"
             => (ret.exc = NoExc /\ ret.val = Zero)

C8_Witness ==
    /\ pc = "api"
    /\ training.cls = "Swimming"
    /\ training.duration = Zero
    /\ last = "show_training_info"
    /\ ret.exc = "ZeroDivisionError"

-----------------------------------------------------------------------------
(* C9 (as amended): on an object of the base class get_spent_calories      *)
(* raises NotImplementedError, and so does show_training_info unless the   *)
(* duration is 0, when the division of the mean speed fails first; no      *)
(* object that read_package returns is of the base class, and neither      *)
(* call raises NotImplementedError on it.                                  *)
C9_ThroughDispatcher ==
    (pc = "api" /\ origin.via = "read_package")
    => /\ origin.name \in KnownCodes
       /\ training.cls \in Variants
       /\ get_spent_calories(training).exc # "NotImplementedError"
       /\ last \in {"get_spent_calories", "show_training_info"}
          => ret.exc # "NotImplementedError"

C9_BaseNotImplemented ==
    /\ (pc = "api" /\ training.cls = "Training")
       => /\ last = "get_spent_calories" => ret.exc = "NotImplementedError"
          /\ last = "show_training_info"
             => ret.exc = IF training.duration = Zero
                          THEN "ZeroDivisionError"
                          ELSE "NotImplementedError"
          /\ info = None
    /\ C9_ThroughDispatcher

(* C9 as stated: show_training_info of the base class always fails with    *)
(* NotImplementedError.                                                    *)
C9_BaseNotImplementedAsStated ==
    /\ (pc = "api" /\ training.cls = "Training")
       => /\ last = "get_spent_calories" => ret.exc = "NotImplementedError"
          /\ last = "show_training_info" => ret.exc = "NotImplementedError"
          /\ info = None
    /\ C9_ThroughDispatcher

C9_Witness ==
    /\ pc = "api"
    /\ origin.via = "class"
    /\ training.cls = "Training"
    /\ training.duration # Zero
    /\ last = "show_training_info"
    /\ ret.exc = "NotImplementedError"

-----------------------------------------------------------------------------
(* C10: no method call changes a field of the object or of the summary it  *)
(* is called on; what a call returns, and the summary, are those of an     *)
(* object built from the record's values alone, however many records went  *)
(* before; and every formatting of one summary gives the same string.      *)
C10_Methods ==
    {"get_distance", "get_mean_speed", "get_duration_in_minutes",
     "get_spent_calories", "show_training_info", "get_message"}

C10_Alone ==
    IF origin.via = "read_package"
    THEN New(VariantOf(origin.name), origin.data).val
    ELSE New(origin.name, origin.data).val

C10_ReturnedAlone ==
    CASE last = "get_distance" -> get_distance(C10_Alone)
      [] last = "get_mean_speed" -> get_mean_speed(C10_Alone)
      [] last = "get_duration_in_minutes" -> get_duration_in_minutes(C10_Alone)
      [] last = "get_spent_calories" -> get_spent_calories(C10_Alone)
      [] last = "show_training_info" -> show_training_info(C10_Alone)
      [] last = "get_message" ->
           [exc |-> NoExc,
            val |-> get_message(show_training_info(C10_Alone).val)]

C10_NoSharedState ==
    /\ [](pc = "api"
          => /\ training = C10_Alone
             /\ last \in C10_Methods => ret = C10_ReturnedAlone
             /\ info # None => info = show_training_info(C10_Alone).val
             /\ \A i \in 1..Len(msgs) :
                  msgs[i] = msgs[1] /\ msgs[i] = get_message(info))
    /\ [][(pc = "api" /\ pc' = "api")
          => /\ last' \in C10_Methods
             /\ training' = training
             /\ info # None => info' = info
             /\ last' = "get_message"
                => (Len(msgs') = Len(msgs) + 1 /\ ret'.val = msgs'[Len(msgs')])
         ]_vars

(* A second record, after the first one was processed, formatted twice.    *)
C10_Witness ==
    /\ pc = "api"
    /\ nrec = 2
    /\ Len(msgs) = 2
    /\ last = "get_duration_in_minutes"

====
